---- MODULE Spec2Model ----
(***************************************************************************)
(* StreamImageCache of src/stream_images.py: an in-memory table of         *)
(* (payload, insertion time) per "page:image_id" key, mirrored to one file *)
(* per key on disk, with a fixed-fraction capacity sweep and a lazy TTL.   *)
(*                                                                         *)
(* Strings are sequences of one-character strings, so that concatenation,  *)
(* str.startswith, str.replace and the glob of clear_page_cache are        *)
(* computed as Python computes them.  Payloads (bytes) are sequences of    *)
(* byte values.  memory_cache is a Python dict: a sequence of entries in   *)
(* insertion order (sorted() is stable, so the dict order breaks ties      *)
(* between equal timestamps).                                              *)
(***************************************************************************)
EXTENDS Integers, Sequences, FiniteSets, TLC

VARIABLES
    memory_cache,      \* dict cache_key -> (data, timestamp), in dict order
    memory_used,       \* self.memory_used
    max_memory_bytes,  \* self.max_memory_bytes
    ttl,               \* self.ttl, in clock ticks
    disk,              \* files of cache_dir: a set of [name, data], one per name
    now,               \* datetime.now(), in clock ticks
    calls_left,        \* number of public calls the run may still make
    written,           \* every (page, image_id, image_data) cache_image was called with
    last,              \* observation of the last public call
    threads,           \* the calls two threads are in: position and local variables
    serial_used,       \* memory_used, had every += and -= on it been one step
    hist,              \* what the calls so far add up to: failures, clears, sweeps
    stream_images,     \* StreamImageManager.stream_images: stream_id -> list of records
    images_dir,        \* files of images_dir: a set of [stream_id, name, data]
    last_manager       \* observation of the last StreamImageManager call

vars == <<memory_cache, memory_used, max_memory_bytes, ttl, disk, now,
          calls_left, written, last, threads, serial_used,
          hist, stream_images, images_dir, last_manager>>

-----------------------------------------------------------------------------
(* Bounds and input domains *)

MaxSteps == 3
MaxTime == 2
\* largest table the sweep is tried on, and the calls made on it
MaxEntries == 10
SweepCalls == 2
\* largest table of the worked scenario
ScenarioEntries == 5

\* str values used as page and image_id arguments
PageA == <<"a">>
PageA_A == <<"a", "_", "a">>
PageAColonA == <<"a", ":", "a">>
Pages == {PageA, PageA_A}
\* the same with a page name that holds the key separator
ColonPages == Pages \cup {PageAColonA}
IdC == <<"c">>
Ids == {IdC}

\* bytes values used as image_data
Payloads == {<<1>>, <<2, 2>>}

\* page and image_id arguments of which two map to the same file name
NamePages == {PageA}
NameIds == {<<"a", ":", "c">>, <<"a", "_", "c">>}

\* one-letter image ids and the payloads of the capacity sweep's tables
IdLetters == <<"d", "e", "f", "g", "h", "i", "j", "k", "l", "m", "n", "o", "p", "q">>
SweepId(i) == <<IdLetters[i]>>
SweepCallIds == {SweepId(1), SweepId(2), SweepId(MaxEntries + 1)}
SweepPayloads == {<<1>>}
\* capacities of those tables, in payloads
SweepCapacityUnits == {5, 11}

\* the worked scenario: 200-byte payloads, room for five of them
Bytes200 == [i \in 1..200 |-> 7]
ScenarioPayloads == {Bytes200}
ScenarioCapacityUnits == {5}

\* constructor arguments: capacity in bytes, TTL in ticks
Capacities == {1, 2}
TTLs == {2}

-----------------------------------------------------------------------------
(* str and bytes helpers *)

StartsWith(s, prefix) ==
    /\ Len(s) >= Len(prefix)
    /\ SubSeq(s, 1, Len(prefix)) = prefix

EndsWith(s, suffix) ==
    /\ Len(s) >= Len(suffix)
    /\ SubSeq(s, Len(s) - Len(suffix) + 1, Len(s)) = suffix

\* cache_key.replace(':', '_')
ReplaceColon(s) == [i \in 1..Len(s) |-> IF s[i] = ":" THEN "_" ELSE s[i]]

ImgExt == <<".", "i", "m", "g">>

\* f"{page}:{image_id}"
CacheKey(page, image_id) == page \o <<":">> \o image_id

\* _get_disk_path: f"{page}_{cache_key.replace(':', '_')}.img"
GetDiskPath(cache_key, page) == page \o <<"_">> \o ReplaceColon(cache_key) \o ImgExt

\* cache_dir.glob(f"{page}_*.img") applied to one file name
GlobMatches(page, name) ==
    /\ Len(name) >= Len(page) + 1 + Len(ImgExt)
    /\ StartsWith(name, page \o <<"_">>)
    /\ EndsWith(name, ImgExt)

-----------------------------------------------------------------------------
(* dict helpers: memory_cache is a sequence of entries                      *)
(*   [key, data, ts] is the dict item; page is the page argument of the    *)
(*   call that stored it (an observation, never read by an operation).     *)

Entry(key, data, ts, page) == [key |-> key, data |-> data, ts |-> ts, page |-> page]

Keys(mc) == {mc[i].key : i \in 1..Len(mc)}

HasKey(mc, key) == \E i \in 1..Len(mc) : mc[i].key = key

IndexOf(mc, key) == CHOOSE i \in 1..Len(mc) : mc[i].key = key

\* mc[key]
Lookup(mc, key) == mc[IndexOf(mc, key)]

\* del mc[key]
DictDel(mc, key) ==
    LET i == IndexOf(mc, key)
    IN  SubSeq(mc, 1, i - 1) \o SubSeq(mc, i + 1, Len(mc))

\* mutant of DictSet: the table is a list, a second store under a key adds a
\* second entry
DictSetAppend(mc, key, data, ts, page) == Append(mc, Entry(key, data, ts, page))

\* mutant of DictSet: dict.setdefault, an existing key keeps its old value
DictSetDefault(mc, key, data, ts, page) ==
    IF HasKey(mc, key) THEN mc ELSE Append(mc, Entry(key, data, ts, page))

\* mc[key] = (data, ts): an existing key keeps its position, a new one is appended
DictSet(mc, key, data, ts, page) ==
    IF HasKey(mc, key)
    THEN [mc EXCEPT ![IndexOf(mc, key)] = Entry(key, data, ts, page)]
    ELSE Append(mc, Entry(key, data, ts, page))

RECURSIVE SumSizes(_)
SumSizes(mc) == IF mc = <<>> THEN 0 ELSE Len(Head(mc).data) + SumSizes(Tail(mc))

-----------------------------------------------------------------------------
(* _evict_old_entries *)

\* mutant of InsertByTs: descending timestamps (sorted(..., reverse=True))
RECURSIVE InsertByTsDesc(_, _)
InsertByTsDesc(s, e) ==
    IF s = <<>> THEN <<e>>
    ELSE IF Head(s).ts >= e.ts THEN <<Head(s)>> \o InsertByTsDesc(Tail(s), e)
    ELSE <<e>> \o s

\* e put into the sorted s behind every item whose timestamp is not greater
RECURSIVE InsertByTs(_, _)
InsertByTs(s, e) ==
    IF s = <<>> THEN <<e>>
    ELSE IF Head(s).ts <= e.ts THEN <<Head(s)>> \o InsertByTs(Tail(s), e)
    ELSE <<e>> \o s

\* sorted(self.memory_cache.items(), key=lambda x: x[1][1]): a stable sort, items
\* with equal timestamps stay in dict order
RECURSIVE SortedItems(_)
SortedItems(mc) ==
    IF mc = <<>> THEN <<>>
    ELSE InsertByTs(SortedItems(SubSeq(mc, 1, Len(mc) - 1)), mc[Len(mc)])

Max(a, b) == IF a >= b THEN a ELSE b

\* mutant of RemoveCount: rounds up
RemoveCountCeil(n) == Max(1, (n + 4) \div 5)

\* remove_count = max(1, len(sorted_items) // 5)
RemoveCount(n) == Max(1, n \div 5)

\* sorted_items[:remove_count]
Victims(mc) == SubSeq(SortedItems(mc), 1, RemoveCount(Len(mc)))

RECURSIVE DelAll(_, _)
DelAll(mc, victims) ==
    IF victims = <<>> THEN mc
    ELSE DelAll(DictDel(mc, Head(victims).key), Tail(victims))

\* the table after one sweep
EvictCache(mc) == IF mc = <<>> THEN mc ELSE DelAll(mc, Victims(mc))

\* mutant of EvictUsed: the sweep takes the size of the whole table off
EvictUsedAll(mc, used) == used - SumSizes(mc)

\* mutant of EvictUsed: the sweep forgets self.memory_used -= removed_size
EvictUsedKept(mc, used) == used

\* self.memory_used after one sweep
EvictUsed(mc, used) == IF mc = <<>> THEN used ELSE used - SumSizes(Victims(mc))

-----------------------------------------------------------------------------
(* files of cache_dir *)

File(name, data) == [name |-> name, data |-> data]

\* disk_path.exists()
FileExists(d, name) == \E f \in d : f.name = name

\* open(path, 'rb').read()
FileData(d, name) == (CHOOSE f \in d : f.name = name).data

\* mutant of WriteFile: the directory is emptied before the file is written
WriteFileOnly(d, name, data) == {File(name, data)}

\* open(path, 'wb').write(data)
WriteFile(d, name, data) == {f \in d : f.name # name} \cup {File(name, data)}

\* _save_to_disk: every exception is caught and printed; when open() raises
\* (saved = FALSE) the file is as it was
SaveToDisk(d, cache_key, data, page, saved) ==
    IF saved THEN WriteFile(d, GetDiskPath(cache_key, page), data) ELSE d

-----------------------------------------------------------------------------
(* observation of a call: its arguments, its result, the state it started   *)
(* from, and the call before it                                             *)

None == <<>>
Some(v) == <<v>>

Call(op, image_id, page, data, at) ==
    [op |-> op, image_id |-> image_id, page |-> page, data |-> data, at |-> at]

\* mid_cache, mid_used: the table and the byte count of cache_image between its
\* sweep and its insertion (for the other calls, the ones they started from)
Obs(op, image_id, page, data, ret, path, raised, swept, mid_cache, mid_used) ==
    [op |-> op, image_id |-> image_id, page |-> page, data |-> data, at |-> now,
     ret |-> ret, path |-> path, raised |-> raised, swept |-> swept,
     pre_cache |-> memory_cache, pre_used |-> memory_used, pre_disk |-> disk,
     mid_cache |-> mid_cache, mid_used |-> mid_used,
     prev |-> Call(last.op, last.image_id, last.page, last.data, last.at)]

NoCall ==
    [op |-> "init", image_id |-> <<>>, page |-> <<>>, data |-> <<>>, at |-> 0,
     ret |-> None, path |-> "none", raised |-> FALSE, swept |-> 0,
     pre_cache |-> <<>>, pre_used |-> 0, pre_disk |-> {},
     mid_cache |-> <<>>, mid_used |-> 0,
     prev |-> Call("init", <<>>, <<>>, <<>>, 0)]

-----------------------------------------------------------------------------
(* __init__ *)

\* nothing has failed, been cleared or been swept; latest holds the payload of
\* the last cache_image of each pair; evicted_read and read_failed are about
\* the last call when it is a get_image: its key was evicted, its read failed
NoHist ==
    [failed |-> FALSE, latest |-> {}, cleared |-> {}, evicted |-> {},
     evicted_read |-> FALSE, read_failed |-> FALSE]

NoManagerCall ==
    [op |-> "init", stream_id |-> "", image_id |-> <<>>, is_owner |-> FALSE,
     ret |-> None, pre_images |-> <<>>, pre_dir |-> {}, pre_cache |-> <<>>,
     pre_used |-> 0, pre_disk |-> {}, followed |-> FALSE]

\* StreamImageManager.__init__ on an empty images_dir
InitManager ==
    /\ hist = NoHist
    /\ stream_images = <<>>
    /\ images_dir = {}
    /\ last_manager = NoManagerCall

\* the calls on the cache leave the manager alone
ManagerFrame == UNCHANGED <<stream_images, images_dir, last_manager>>

Apart == UNCHANGED <<hist, stream_images, images_dir, last_manager>>

Threads == {1, 2}

\* a thread that is in no call
IdleThread ==
    [op |-> "none", pc |-> "done", image_id |-> <<>>, page |-> <<>>, data |-> <<>>,
     ts |-> 0, loaded |-> 0, ret |-> None]

NoThreads == [t \in Threads |-> IdleThread]

Init ==
    /\ memory_cache = <<>>
    /\ memory_used = 0
    /\ max_memory_bytes \in Capacities
    /\ ttl \in TTLs
    /\ disk = {}
    /\ now = 0
    /\ calls_left = MaxSteps
    /\ written = {}
    /\ last = NoCall
    /\ threads = NoThreads
    /\ serial_used = 0
    /\ InitManager

-----------------------------------------------------------------------------
(* cache_image *)

\* mutant of NeedsSweep: >= for >
NeedsSweepGe(used, image_size, capacity) == used + image_size >= capacity

\* if self.memory_used + image_size > self.max_memory_bytes
NeedsSweep(used, image_size, capacity) == used + image_size > capacity

\* mutant of CacheImageResult: the call reports whether the write to disk worked
CacheImageResultSaved(image_size, capacity, saved) == saved

\* mutant of CacheImageResult: the call turns down what is larger than the capacity
CacheImageResultFits(image_size, capacity, saved) == image_size <= capacity

\* return True: whatever the size, the capacity and the outcome of the write
CacheImageResult(image_size, capacity, saved) == TRUE

CacheImage(image_id, image_data, page, saved) ==
    LET image_size == Len(image_data)
        sweep      == NeedsSweep(memory_used, image_size, max_memory_bytes)
        mc1        == IF sweep THEN EvictCache(memory_cache) ELSE memory_cache
        mu1        == IF sweep THEN EvictUsed(memory_cache, memory_used) ELSE memory_used
        cache_key  == CacheKey(page, image_id)
    IN  /\ calls_left > 0
        /\ calls_left' = calls_left - 1
        /\ memory_cache' = DictSet(mc1, cache_key, image_data, now, page)
        /\ memory_used' = mu1 + image_size
        /\ disk' = SaveToDisk(disk, cache_key, image_data, page, saved)
        /\ written' = written \cup {<<page, image_id, image_data>>}
        /\ last' = Obs("cache_image", image_id, page, image_data,
                       Some(CacheImageResult(image_size, max_memory_bytes, saved)),
                       "none", FALSE, IF sweep THEN 1 ELSE 0, mc1, mu1)
        /\ UNCHANGED <<max_memory_bytes, ttl, now, threads, serial_used>>

-----------------------------------------------------------------------------
(* get_image *)

\* mutant of Fresh: <= for <
FreshLe(ts, t, window) == t - ts <= window

\* datetime.now() - timestamp < self.ttl
Fresh(ts, t, window) == t - ts < window

\* mutant of AfterHit: a hit moves the entry to the back of the table with the
\* time of the read (LRU promotion)
AfterHitPromoted(mc, cache_key, t) ==
    LET e == Lookup(mc, cache_key)
    IN  Append(DictDel(mc, cache_key), Entry(cache_key, e.data, t, e.page))

\* the table after a memory hit: return data, nothing is stored
AfterHit(mc, cache_key, t) == mc

\* mutant of RestoreInto: the capacity test and the sweep of cache_image, run
\* before the restore as well
RestoreIntoSwept(mc, used, size, capacity) ==
    IF NeedsSweep(used, size, capacity) THEN EvictCache(mc) ELSE mc

\* the table a disk hit stores into: the table as it is, no capacity test and
\* no sweep come before the store
RestoreInto(mc, used, size, capacity) == mc

\* get_image gets as far as open(disk_path, 'rb'): only then can the read raise
ReadsDisk(image_id, page) ==
    LET cache_key == CacheKey(page, image_id)
    IN  /\ ~(/\ HasKey(memory_cache, cache_key)
             /\ Fresh(Lookup(memory_cache, cache_key).ts, now, ttl))
        /\ FileExists(disk, GetDiskPath(cache_key, page))

GetImage(image_id, page, readOk) ==
    LET cache_key == CacheKey(page, image_id)
        inMem     == HasKey(memory_cache, cache_key)
        hit       == inMem /\ Fresh(Lookup(memory_cache, cache_key).ts, now, ttl)
        \* an expired entry is deleted; memory_used is left as it is
        mc1       == IF inMem /\ ~hit THEN DictDel(memory_cache, cache_key) ELSE memory_cache
        disk_path == GetDiskPath(cache_key, page)
        onDisk    == FileExists(disk, disk_path)
        data      == FileData(disk, disk_path)
    IN  /\ calls_left > 0
        /\ calls_left' = calls_left - 1
        /\ UNCHANGED <<max_memory_bytes, ttl, now, disk, written, threads, serial_used>>
        /\ IF hit
           THEN /\ memory_cache' = AfterHit(memory_cache, cache_key, now)
                /\ UNCHANGED memory_used
                /\ last' = Obs("get_image", image_id, page, <<>>,
                               Some(Lookup(memory_cache, cache_key).data),
                               "memory", FALSE, 0, memory_cache, memory_used)
           ELSE IF onDisk /\ readOk
           THEN /\ memory_cache' =
                      DictSet(RestoreInto(mc1, memory_used, Len(data), max_memory_bytes),
                              cache_key, data, now, page)
                /\ memory_used' = memory_used + Len(data)
                /\ last' = Obs("get_image", image_id, page, <<>>, Some(data),
                               "disk", FALSE, 0, memory_cache, memory_used)
           ELSE /\ memory_cache' = mc1
                /\ UNCHANGED memory_used
                /\ last' = Obs("get_image", image_id, page, <<>>, None,
                               "miss", FALSE, 0, memory_cache, memory_used)

-----------------------------------------------------------------------------
(* clear_page_cache *)

\* [k for k in self.memory_cache.keys() if k.startswith(prefix)]
KeysToRemove(mc, page) ==
    {k \in Keys(mc) : StartsWith(k, page \o <<":">>)}

RECURSIVE Without(_, _)
Without(mc, keys) ==
    IF mc = <<>> THEN <<>>
    ELSE IF Head(mc).key \in keys THEN Without(Tail(mc), keys)
         ELSE <<Head(mc)>> \o Without(Tail(mc), keys)

\* mutant of RemovedSize: the size of the whole table, the keys that stay
\* included
RemovedSizeAll(mc, keys) == SumSizes(mc)

RECURSIVE RemovedSize(_, _)
RemovedSize(mc, keys) ==
    IF mc = <<>> THEN 0
    ELSE (IF Head(mc).key \in keys THEN Len(Head(mc).data) ELSE 0)
         + RemovedSize(Tail(mc), keys)

\* the files cache_dir.glob(f"{page}_*.img") yields
GlobFiles(d, page) == {f \in d : GlobMatches(page, f.name)}

\* kept = the matched files still present when the call ends: none when every
\* unlink() succeeds; otherwise one unlink() raised, the loop stopped there and
\* the exception left clear_page_cache
ClearPageCache(page, kept) ==
    LET keys_to_remove == KeysToRemove(memory_cache, page)
        removed_count  == Cardinality(keys_to_remove)
        removed_size   == RemovedSize(memory_cache, keys_to_remove)
    IN  /\ calls_left > 0
        /\ kept \subseteq GlobFiles(disk, page)
        /\ calls_left' = calls_left - 1
        /\ memory_cache' = Without(memory_cache, keys_to_remove)
        /\ memory_used' = memory_used - removed_size
        /\ disk' = (disk \ GlobFiles(disk, page)) \cup kept
        /\ last' = Obs("clear_page_cache", <<>>, page, <<>>,
                       IF kept = {} THEN Some(removed_count) ELSE None,
                       "none", kept # {}, 0, memory_cache, memory_used)
        /\ UNCHANGED <<max_memory_bytes, ttl, now, written, threads, serial_used>>

-----------------------------------------------------------------------------
(* get_cache_stats *)

MB == 1024 * 1024

\* round(bytes / (1024 * 1024), 2), in hundredths of a MB: the nearest hundredth,
\* a tie goes to the even one
RoundedMB(bytes) ==
    LET q == (bytes * 100) \div MB
        r == (bytes * 100) % MB
    IN  IF 2 * r > MB \/ (2 * r = MB /\ q % 2 = 1) THEN q + 1 ELSE q

\* the dict get_cache_stats returns (cache_dir left out; memory_max_mb and
\* ttl_hours as the bytes and the ticks they are computed from)
CacheStats ==
    [memory_used_mb |-> RoundedMB(memory_used),
     memory_max_mb  |-> max_memory_bytes,
     cached_items   |-> Len(memory_cache),
     ttl_hours      |-> ttl]

GetCacheStats ==
    /\ calls_left > 0
    /\ calls_left' = calls_left - 1
    /\ last' = Obs("get_cache_stats", <<>>, <<>>, <<>>, Some(CacheStats), "none",
                   FALSE, 0, memory_cache, memory_used)
    /\ UNCHANGED <<memory_cache, memory_used, max_memory_bytes, ttl, disk, now, written,
                   threads, serial_used>>
    /\ Apart

-----------------------------------------------------------------------------
(* the clock *)

\* time passes between two calls
Tick ==
    /\ now < MaxTime
    /\ calls_left > 0
    /\ now' = now + 1
    /\ UNCHANGED <<memory_cache, memory_used, max_memory_bytes, ttl, disk,
                   calls_left, written, last, threads, serial_used>>
    /\ Apart

-----------------------------------------------------------------------------
(* calls with arguments drawn from given pages, ids and payloads *)

CacheImageOver(P, I, D) ==
    \E page \in P, image_id \in I, image_data \in D, saved \in BOOLEAN :
        /\ CacheImage(image_id, image_data, page, saved)
        /\ Apart

GetImageOver(P, I) ==
    \E page \in P, image_id \in I, readOk \in BOOLEAN :
        /\ readOk \/ ReadsDisk(image_id, page)
        /\ GetImage(image_id, page, readOk)
        /\ Apart

ClearPageCacheOver(P) ==
    \E page \in P :
        \E kept \in SUBSET GlobFiles(disk, page) :
            /\ ClearPageCache(page, kept)
            /\ Apart

DoCacheImage == CacheImageOver(Pages, Ids, Payloads)
DoGetImage == GetImageOver(Pages, Ids)
DoClearPageCache == ClearPageCacheOver(Pages)

Next == DoCacheImage \/ DoGetImage \/ DoClearPageCache \/ GetCacheStats \/ Tick

Spec == Init /\ [][Next]_vars

\* the same calls, page names with ':' included
NextPages ==
    \/ CacheImageOver(ColonPages, Ids, Payloads)
    \/ GetImageOver(ColonPages, Ids)
    \/ ClearPageCacheOver(ColonPages)
    \/ GetCacheStats
    \/ Tick

SpecPages == Init /\ [][NextPages]_vars

\* only cache_image and clear_page_cache are called
NextCacheClear == DoCacheImage \/ DoClearPageCache \/ Tick

SpecCacheClear == Init /\ [][NextCacheClear]_vars

\* calls whose (page, image_id) pairs share a disk file name
NextNames ==
    \/ CacheImageOver(NamePages, NameIds, Payloads)
    \/ GetImageOver(NamePages, NameIds)
    \/ ClearPageCacheOver(NamePages)
    \/ Tick

SpecNames == Init /\ [][NextNames]_vars

\* pages and ids with a ':' in them: the pairs ("a", "a:c") and ("a:a", "c")
KeyPages == {PageA, PageAColonA}
KeyIds == {IdC, <<"a", ":", "c">>}

NextKeys ==
    \/ CacheImageOver(KeyPages, KeyIds, Payloads)
    \/ GetImageOver(KeyPages, KeyIds)
    \/ ClearPageCacheOver(KeyPages)
    \/ Tick

SpecKeys == Init /\ [][NextKeys]_vars

\* A cache that holds n <= maxN entries of one payload of D under n image ids,
\* stamped in call order, each with its file on disk, with room for U payloads:
\* the state after n cache_image calls (n within the capacity) or, for any n,
\* after a restart on that cache_dir and a get_image of each id (a disk hit
\* inserts without a sweep).  SweepCalls more calls follow.
InitTable(maxN, D, U) ==
    \E n \in 0..maxN, d \in D, units \in U :
        \E stamps \in [1..n -> 0..(MaxTime - 1)] :
            /\ \A i, j \in 1..n : i <= j => stamps[i] <= stamps[j]
            /\ memory_cache =
                  [i \in 1..n |-> Entry(CacheKey(PageA, SweepId(i)), d, stamps[i], PageA)]
            /\ memory_used = n * Len(d)
            /\ max_memory_bytes = units * Len(d)
            /\ ttl \in TTLs
            /\ disk = {File(GetDiskPath(CacheKey(PageA, SweepId(i)), PageA), d) :
                          i \in 1..n}
            /\ now = MaxTime - 1
            /\ calls_left = SweepCalls
            /\ written = {<<PageA, SweepId(i), d>> : i \in 1..n}
            /\ last = NoCall
            /\ threads = NoThreads
            /\ serial_used = 0
            /\ InitManager

InitSweep == InitTable(MaxEntries, SweepPayloads, SweepCapacityUnits)

NextSweep == CacheImageOver({PageA}, SweepCallIds, SweepPayloads) \/ Tick

SpecSweep == InitSweep /\ [][NextSweep]_vars

InitScenario == InitTable(ScenarioEntries, ScenarioPayloads, ScenarioCapacityUnits)

NextScenario ==
    \/ CacheImageOver({PageA}, {SweepId(1), SweepId(2), SweepId(ScenarioEntries + 1)},
                      ScenarioPayloads \cup SweepPayloads)
    \/ Tick

SpecScenario == InitScenario /\ [][NextScenario]_vars

\* one pair, cached again and again under a capacity that holds both payloads,
\* with one call more than Spec makes
ReplaceCapacities == {3}

InitReplace ==
    /\ memory_cache = <<>>
    /\ memory_used = 0
    /\ max_memory_bytes \in ReplaceCapacities
    /\ ttl \in TTLs
    /\ disk = {}
    /\ now = 0
    /\ calls_left = MaxSteps + 1
    /\ written = {}
    /\ last = NoCall
    /\ threads = NoThreads
    /\ serial_used = 0
    /\ InitManager

NextReplace ==
    \/ CacheImageOver({PageA}, Ids, Payloads)
    \/ GetImageOver({PageA}, Ids)
    \/ ClearPageCacheOver({PageA})
    \/ GetCacheStats
    \/ Tick

SpecReplace == InitReplace /\ [][NextReplace]_vars

-----------------------------------------------------------------------------
(* the same calls, with the history of the cache kept in hist *)

\* the (page, key) of the entries of a table whose key is not in another
Dropped(mc, after) == {<<mc[i].page, mc[i].key>> : i \in {j \in 1..Len(mc) : ~HasKey(after, mc[j].key)}}

\* after cache_image: the pair has a new latest payload and is no more cleared
\* or evicted; what the sweep of the call removed is evicted
HistCacheImage(image_id, image_data, page, saved) ==
    [failed  |-> hist.failed \/ ~saved,
     latest  |-> {w \in hist.latest : ~(w[1] = page /\ w[2] = image_id)}
                    \cup {<<page, image_id, image_data>>},
     cleared |-> hist.cleared \ {<<page, image_id>>},
     evicted |-> {x \in hist.evicted \cup Dropped(memory_cache, last'.mid_cache) :
                     x[2] # CacheKey(page, image_id)},
     evicted_read |-> FALSE,
     read_failed  |-> FALSE]

\* after get_image: a disk hit puts the key back in memory
HistGetImage(image_id, page, readOk) ==
    [hist EXCEPT !.failed  = @ \/ (ReadsDisk(image_id, page) /\ ~readOk),
                 !.evicted = IF last'.path = "disk"
                             THEN {x \in @ : x[2] # CacheKey(page, image_id)}
                             ELSE @,
                 !.evicted_read = <<page, CacheKey(page, image_id)>> \in hist.evicted,
                 !.read_failed  = ReadsDisk(image_id, page) /\ ~readOk]

\* after clear_page_cache: when it returned, every pair cached under the page
\* is cleared; nothing of the page counts as evicted any more
HistClearPageCache(page, kept) ==
    [hist EXCEPT !.failed  = @ \/ kept # {},
                 !.cleared = IF kept = {}
                             THEN @ \cup {<<w[1], w[2]>> : w \in {x \in written : x[1] = page}}
                             ELSE @,
                 !.evicted = {x \in @ : x[1] # page},
                 !.evicted_read = FALSE,
                 !.read_failed  = FALSE]

CacheImageTracked(P, I, D) ==
    \E page \in P, image_id \in I, image_data \in D, saved \in BOOLEAN :
        /\ CacheImage(image_id, image_data, page, saved)
        /\ hist' = HistCacheImage(image_id, image_data, page, saved)
        /\ ManagerFrame

GetImageTracked(P, I) ==
    \E page \in P, image_id \in I, readOk \in BOOLEAN :
        /\ readOk \/ ReadsDisk(image_id, page)
        /\ GetImage(image_id, page, readOk)
        /\ hist' = HistGetImage(image_id, page, readOk)
        /\ ManagerFrame

ClearPageCacheTracked(P) ==
    \E page \in P :
        \E kept \in SUBSET GlobFiles(disk, page) :
            /\ ClearPageCache(page, kept)
            /\ hist' = HistClearPageCache(page, kept)
            /\ ManagerFrame

NextHist ==
    \/ CacheImageTracked(Pages, Ids, Payloads)
    \/ GetImageTracked(Pages, Ids)
    \/ ClearPageCacheTracked(Pages)
    \/ Tick

SpecHist == Init /\ [][NextHist]_vars

\* the pairs that share a disk file name, with one call more than Spec makes
InitHistNames ==
    /\ memory_cache = <<>>
    /\ memory_used = 0
    /\ max_memory_bytes \in Capacities
    /\ ttl \in TTLs
    /\ disk = {}
    /\ now = 0
    /\ calls_left = MaxSteps + 1
    /\ written = {}
    /\ last = NoCall
    /\ threads = NoThreads
    /\ serial_used = 0
    /\ InitManager

NextHistNames ==
    \/ CacheImageTracked(NamePages, NameIds, Payloads)
    \/ GetImageTracked(NamePages, NameIds)
    \/ ClearPageCacheTracked(NamePages)
    \/ Tick

SpecHistNames == InitHistNames /\ [][NextHistNames]_vars

-----------------------------------------------------------------------------
(* two threads in cache_image and get_image on the one cache object: no lock *)
(* is taken, so a step of one thread can come between any two statements of *)
(* the other                                                                *)

\* a thread at the first statement of a call
ThreadCall(op, image_id, page, data) ==
    [op |-> op, pc |-> IF op = "cache_image" THEN "c_check" ELSE "g_check",
     image_id |-> image_id, page |-> page, data |-> data,
     ts |-> 0, loaded |-> 0, ret |-> None]

ThreadKey(t) == CacheKey(threads[t].page, threads[t].image_id)

ThreadFrame ==
    /\ UNCHANGED <<max_memory_bytes, ttl, now, calls_left, written, last>>
    /\ Apart

\* cache_image, lines 112-116: the capacity test and the sweep it may run
\* (_evict_old_entries is taken as one step)
ThreadCacheCheck(t) ==
    LET sweep == NeedsSweep(memory_used, Len(threads[t].data), max_memory_bytes)
    IN  /\ threads[t].pc = "c_check"
        /\ memory_cache' = IF sweep THEN EvictCache(memory_cache) ELSE memory_cache
        /\ memory_used' = IF sweep THEN EvictUsed(memory_cache, memory_used) ELSE memory_used
        /\ serial_used' = IF sweep THEN EvictUsed(memory_cache, serial_used) ELSE serial_used
        /\ threads' = [threads EXCEPT ![t].pc = "c_insert"]
        /\ UNCHANGED disk
        /\ ThreadFrame

\* cache_image, line 120: self.memory_cache[cache_key] = (image_data, now)
ThreadCacheInsert(t) ==
    /\ threads[t].pc = "c_insert"
    /\ memory_cache' = DictSet(memory_cache, ThreadKey(t), threads[t].data, now,
                               threads[t].page)
    /\ threads' = [threads EXCEPT ![t].pc = "load"]
    /\ UNCHANGED <<memory_used, serial_used, disk>>
    /\ ThreadFrame

\* self.memory_used += n (lines 121 and 149), first half: self.memory_used is
\* read
ThreadLoadUsed(t) ==
    /\ threads[t].pc = "load"
    /\ threads' = [threads EXCEPT ![t].pc = "store", ![t].loaded = memory_used]
    /\ UNCHANGED <<memory_cache, memory_used, serial_used, disk>>
    /\ ThreadFrame

\* self.memory_used += n, second half: the sum is stored; get_image then
\* returns data (line 150)
ThreadStoreUsed(t) ==
    /\ threads[t].pc = "store"
    /\ memory_used' = threads[t].loaded + Len(threads[t].data)
    /\ serial_used' = serial_used + Len(threads[t].data)
    /\ threads' = IF threads[t].op = "cache_image"
                  THEN [threads EXCEPT ![t].pc = "c_save"]
                  ELSE [threads EXCEPT ![t].pc = "done", ![t].ret = Some(threads[t].data)]
    /\ UNCHANGED <<memory_cache, disk>>
    /\ ThreadFrame

\* cache_image, lines 124-126: _save_to_disk and return True
ThreadCacheSave(t) ==
    /\ threads[t].pc = "c_save"
    /\ \E saved \in BOOLEAN :
          disk' = SaveToDisk(disk, ThreadKey(t), threads[t].data, threads[t].page, saved)
    /\ threads' = [threads EXCEPT ![t].pc = "done", ![t].ret = Some(TRUE)]
    /\ UNCHANGED <<memory_cache, memory_used, serial_used>>
    /\ ThreadFrame

\* get_image, line 133: if cache_key in self.memory_cache
ThreadGetCheck(t) ==
    /\ threads[t].pc = "g_check"
    /\ threads' = [threads EXCEPT ![t].pc =
                      IF HasKey(memory_cache, ThreadKey(t)) THEN "g_read" ELSE "g_disk"]
    /\ UNCHANGED <<memory_cache, memory_used, serial_used, disk>>
    /\ ThreadFrame

\* get_image, line 134: data, timestamp = self.memory_cache[cache_key];
\* KeyError when the key went away since line 133
ThreadGetRead(t) ==
    /\ threads[t].pc = "g_read"
    /\ threads' = IF HasKey(memory_cache, ThreadKey(t))
                  THEN [threads EXCEPT ![t].pc = "g_fresh",
                                       ![t].data = Lookup(memory_cache, ThreadKey(t)).data,
                                       ![t].ts = Lookup(memory_cache, ThreadKey(t)).ts]
                  ELSE [threads EXCEPT ![t].pc = "raised"]
    /\ UNCHANGED <<memory_cache, memory_used, serial_used, disk>>
    /\ ThreadFrame

\* get_image, lines 136-137: the TTL test, and return data when it holds
ThreadGetFresh(t) ==
    /\ threads[t].pc = "g_fresh"
    /\ threads' = IF Fresh(threads[t].ts, now, ttl)
                  THEN [threads EXCEPT ![t].pc = "done", ![t].ret = Some(threads[t].data)]
                  ELSE [threads EXCEPT ![t].pc = "g_del"]
    /\ UNCHANGED <<memory_cache, memory_used, serial_used, disk>>
    /\ ThreadFrame

\* get_image, line 139: del self.memory_cache[cache_key]; KeyError when the
\* key went away since line 133
ThreadGetDel(t) ==
    /\ threads[t].pc = "g_del"
    /\ IF HasKey(memory_cache, ThreadKey(t))
       THEN /\ memory_cache' = DictDel(memory_cache, ThreadKey(t))
            /\ threads' = [threads EXCEPT ![t].pc = "g_disk"]
       ELSE /\ threads' = [threads EXCEPT ![t].pc = "raised"]
            /\ UNCHANGED memory_cache
    /\ UNCHANGED <<memory_used, serial_used, disk>>
    /\ ThreadFrame

\* get_image, lines 142-146 and 151-154: the file is looked for and read;
\* return None when it is not there or the read fails
ThreadGetDisk(t) ==
    LET disk_path == GetDiskPath(ThreadKey(t), threads[t].page)
    IN  /\ threads[t].pc = "g_disk"
        /\ \E readOk \in BOOLEAN :
              /\ readOk \/ FileExists(disk, disk_path)
              /\ threads' = IF FileExists(disk, disk_path) /\ readOk
                            THEN [threads EXCEPT ![t].pc = "g_insert",
                                                 ![t].data = FileData(disk, disk_path)]
                            ELSE [threads EXCEPT ![t].pc = "done", ![t].ret = None]
        /\ UNCHANGED <<memory_cache, memory_used, serial_used, disk>>
        /\ ThreadFrame

\* get_image, line 148: self.memory_cache[cache_key] = (data, now)
ThreadGetInsert(t) ==
    /\ threads[t].pc = "g_insert"
    /\ memory_cache' = DictSet(memory_cache, ThreadKey(t), threads[t].data, now,
                               threads[t].page)
    /\ threads' = [threads EXCEPT ![t].pc = "load"]
    /\ UNCHANGED <<memory_used, serial_used, disk>>
    /\ ThreadFrame

\* the calls a thread may be in
ThreadCalls ==
    {ThreadCall("cache_image", i, p, d) : i \in Ids, p \in Pages, d \in Payloads}
        \cup {ThreadCall("get_image", i, p, <<>>) : i \in Ids, p \in Pages}

\* the tables the threads may start on: empty, or the one entry of one
\* cache_image(IdC, d, PageA) made at time 0, with its file
InitThreads ==
    /\ \E n \in 0..1, d \in Payloads :
          /\ memory_cache = [i \in 1..n |-> Entry(CacheKey(PageA, IdC), d, 0, PageA)]
          /\ memory_used = n * Len(d)
          /\ serial_used = n * Len(d)
          /\ disk = {File(GetDiskPath(CacheKey(PageA, IdC), PageA), d) : i \in 1..n}
          /\ written = {<<PageA, IdC, d>> : i \in 1..n}
    /\ max_memory_bytes \in Capacities
    /\ ttl \in TTLs
    /\ now \in 0..MaxTime
    /\ calls_left = 0
    /\ last = NoCall
    /\ threads \in [Threads -> ThreadCalls]
    /\ InitManager

NextThreads ==
    \E t \in Threads :
        \/ ThreadCacheCheck(t)
        \/ ThreadCacheInsert(t)
        \/ ThreadLoadUsed(t)
        \/ ThreadStoreUsed(t)
        \/ ThreadCacheSave(t)
        \/ ThreadGetCheck(t)
        \/ ThreadGetRead(t)
        \/ ThreadGetFresh(t)
        \/ ThreadGetDel(t)
        \/ ThreadGetDisk(t)
        \/ ThreadGetInsert(t)

SpecThreads == InitThreads /\ [][NextThreads]_vars

-----------------------------------------------------------------------------
(* StreamImageManager *)

\* the stream that receives uploads, and one that never does
Streams == {"s1"}
UnknownStreams == {"s2"}

\* str(uuid.uuid4()): values of one length, so none is a prefix of another
UUIDs == {<<"u", "1">>, <<"u", "2">>}
Filenames == {<<"f">>}
ManagerPages == {PageA}
ManagerPayloads == {<<1>>}
\* one image fills the memory tier: the second upload runs the sweep
ManagerCapacities == {1}

\* class ImageVisibility
PRIVATE == "private"
PUBLIC == "public"
SUBSCRIBERS == "subscribers"
ImageVisibility == {PRIVATE, PUBLIC, SUBSCRIBERS}

\* the two options of the visibility selectbox
VisibilityOptions == {PUBLIC, PRIVATE}

\* StreamImage(image_id, stream_id, filename, file_path, visibility, ...)
StreamImage(image_id, stream_id, filename, visibility, size_bytes) ==
    [image_id |-> image_id, stream_id |-> stream_id, filename |-> filename,
     visibility |-> visibility, size_bytes |-> size_bytes, view_count |-> 0]

\* a file of images_dir / stream_id
StoredFile(stream_id, name, data) ==
    [stream_id |-> stream_id, name |-> name, data |-> data]

\* f"{image_id}_{filename}"
ImageFileName(image_id, filename) == image_id \o <<"_">> \o filename

\* f"{image_id}_thumb.jpg"
ThumbFileName(image_id) ==
    image_id \o <<"_", "t", "h", "u", "m", "b", ".", "j", "p", "g">>

\* the bytes pil_img.save writes: a JPEG of the reduced image, whose content
\* no call reads back
Thumbnail(image_data) == <<0>>

\* open(file_path, 'wb').write(data) in a stream directory
StoreFile(dir, stream_id, name, data) ==
    {f \in dir : ~(f.stream_id = stream_id /\ f.name = name)}
        \cup {StoredFile(stream_id, name, data)}

\* stream_dir.glob(f"{image_id}*")
StoredFilesOf(dir, stream_id, image_id) ==
    {f \in dir : f.stream_id = stream_id /\ StartsWith(f.name, image_id)}

\* what a call on the manager started from and returned; followed: a call on the
\* cache has been made since
ManagerCall(op, stream_id, image_id, is_owner, ret) ==
    [op |-> op, stream_id |-> stream_id, image_id |-> image_id,
     is_owner |-> is_owner, ret |-> ret, pre_images |-> stream_images,
     pre_dir |-> images_dir, pre_cache |-> memory_cache, pre_used |-> memory_used,
     pre_disk |-> disk, followed |-> FALSE]

\* the cache as a call on the manager that does not reach it leaves it
CacheFrame ==
    UNCHANGED <<memory_cache, memory_used, max_memory_bytes, ttl, disk, now,
                written, last, threads, serial_used, hist>>

\* self.stream_images[stream_id].append(img_obj), the list created when missing
AppendImage(images, stream_id, img_obj) ==
    [s \in DOMAIN images \cup {stream_id} |->
        IF s = stream_id
        THEN (IF s \in DOMAIN images THEN images[s] ELSE <<>>) \o <<img_obj>>
        ELSE images[s]]

\* upload_stream_image; wrote: the image file is written; isImage: PIL opens the
\* data and saves the thumbnail; saved: the cache's disk write
UploadStreamImage(stream_id, image_id, image_data, filename, visibility, page, wrote, isImage, saved) ==
    LET img_obj == StreamImage(image_id, stream_id, filename, visibility,
                               Len(image_data))
        dir1    == StoreFile(images_dir, stream_id,
                             ImageFileName(image_id, filename), image_data)
        dir2    == IF isImage
                   THEN StoreFile(dir1, stream_id, ThumbFileName(image_id),
                                  Thumbnail(image_data))
                   ELSE dir1
    IN  /\ calls_left > 0
        /\ image_id \notin {w[2] : w \in written}
        /\ IF wrote
           THEN /\ CacheImage(image_id, image_data, page, saved)
                /\ hist' = hist
                /\ images_dir' = dir2
                /\ stream_images' = AppendImage(stream_images, stream_id, img_obj)
                /\ last_manager' = ManagerCall("upload_stream_image", stream_id,
                                               image_id, FALSE, Some(image_id))
           ELSE /\ calls_left' = calls_left - 1
                /\ CacheFrame
                /\ UNCHANGED <<stream_images, images_dir>>
                /\ last_manager' = ManagerCall("upload_stream_image", stream_id,
                                               image_id, FALSE, None)

\* mutant of Visible: the subscriber branch, with every viewer a subscriber
VisibleSubscribers(img, is_owner) ==
    is_owner \/ img.visibility = PUBLIC \/ img.visibility = SUBSCRIBERS

\* if is_owner ... elif img.visibility == ImageVisibility.PUBLIC
Visible(img, is_owner) == is_owner \/ img.visibility = PUBLIC

\* img.view_count += 1 on every visible image
Viewed(images, is_owner) ==
    [i \in 1..Len(images) |->
        IF Visible(images[i], is_owner)
        THEN [images[i] EXCEPT !.view_count = @ + 1]
        ELSE images[i]]

\* visible_images: the visible records, in the order of the list
VisibleImages(images, is_owner) ==
    LET Test(img) == Visible(img, is_owner)
    IN  SelectSeq(images, Test)

\* get_stream_images: the list returned holds the stored objects, views counted
GetStreamImages(stream_id, is_owner) ==
    /\ calls_left > 0
    /\ calls_left' = calls_left - 1
    /\ CacheFrame
    /\ UNCHANGED images_dir
    /\ IF stream_id \notin DOMAIN stream_images
       THEN /\ UNCHANGED stream_images
            /\ last_manager' = ManagerCall("get_stream_images", stream_id, <<>>,
                                           is_owner, <<>>)
       ELSE LET viewed == Viewed(stream_images[stream_id], is_owner)
            IN  /\ stream_images' = [stream_images EXCEPT ![stream_id] = viewed]
                /\ last_manager' = ManagerCall("get_stream_images", stream_id, <<>>,
                                               is_owner,
                                               VisibleImages(viewed, is_owner))

\* mutant of WithoutImage: the records are kept
WithoutImageKept(images, image_id) == images

\* [img for img in self.stream_images[stream_id] if img.image_id != image_id]
WithoutImage(images, image_id) ==
    LET Test(img) == img.image_id # image_id
    IN  SelectSeq(images, Test)

\* delete_stream_image; unlinked: the files removed before an unlink raises
\* (all of them when none does)
DeleteStreamImage(stream_id, image_id, unlinked) ==
    /\ calls_left > 0
    /\ calls_left' = calls_left - 1
    /\ CacheFrame
    /\ IF stream_id \notin DOMAIN stream_images
       THEN /\ unlinked = {}
            /\ UNCHANGED <<stream_images, images_dir>>
            /\ last_manager' = ManagerCall("delete_stream_image", stream_id,
                                           image_id, FALSE, Some(FALSE))
       ELSE /\ unlinked \subseteq StoredFilesOf(images_dir, stream_id, image_id)
            /\ stream_images' =
                  [stream_images EXCEPT
                      ![stream_id] = WithoutImage(@, image_id)]
            /\ images_dir' = images_dir \ unlinked
            /\ last_manager' =
                  ManagerCall("delete_stream_image", stream_id, image_id, FALSE,
                      Some(unlinked = StoredFilesOf(images_dir, stream_id, image_id)))

\* the owner's selectbox: img.visibility = ImageVisibility(new_visibility)
SetVisibility(stream_id, i, new_visibility) ==
    /\ calls_left > 0
    /\ stream_id \in DOMAIN stream_images
    /\ i \in 1..Len(stream_images[stream_id])
    /\ new_visibility # stream_images[stream_id][i].visibility
    /\ calls_left' = calls_left - 1
    /\ CacheFrame
    /\ UNCHANGED images_dir
    /\ stream_images' = [stream_images EXCEPT ![stream_id][i].visibility = new_visibility]
    /\ last_manager' = ManagerCall("set_visibility", stream_id,
                                   stream_images[stream_id][i].image_id, TRUE, None)

\* manager.cache.get_image(image_id, page)
ManagerGetImage(P, I) ==
    \E page \in P, image_id \in I, readOk \in BOOLEAN :
        /\ readOk \/ ReadsDisk(image_id, page)
        /\ GetImage(image_id, page, readOk)
        /\ hist' = hist
        /\ UNCHANGED <<stream_images, images_dir>>
        /\ last_manager' = [last_manager EXCEPT !.followed = TRUE]

\* manager.cache.clear_page_cache(page)
ManagerClearPageCache(P) ==
    \E page \in P :
        \E kept \in SUBSET GlobFiles(disk, page) :
            /\ ClearPageCache(page, kept)
            /\ hist' = hist
            /\ UNCHANGED <<stream_images, images_dir>>
            /\ last_manager' = [last_manager EXCEPT !.followed = TRUE]

DoUploadStreamImage ==
    \E stream_id \in Streams, image_id \in UUIDs, image_data \in ManagerPayloads,
       filename \in Filenames, visibility \in ImageVisibility,
       page \in ManagerPages, wrote \in BOOLEAN, isImage \in BOOLEAN,
       saved \in BOOLEAN :
        /\ wrote \/ (~isImage /\ saved)
        /\ UploadStreamImage(stream_id, image_id, image_data, filename,
                             visibility, page, wrote, isImage, saved)

DoGetStreamImages ==
    \E stream_id \in Streams \cup UnknownStreams, is_owner \in BOOLEAN :
        GetStreamImages(stream_id, is_owner)

DoDeleteStreamImage ==
    \E stream_id \in Streams \cup UnknownStreams, image_id \in UUIDs :
        \E unlinked \in SUBSET StoredFilesOf(images_dir, stream_id, image_id) :
            DeleteStreamImage(stream_id, image_id, unlinked)

DoSetVisibility ==
    \E stream_id \in Streams, i \in 1..Cardinality(UUIDs),
       new_visibility \in VisibilityOptions :
        SetVisibility(stream_id, i, new_visibility)

\* get_image_manager(): one manager, on empty directories
InitUploads ==
    /\ memory_cache = <<>>
    /\ memory_used = 0
    /\ max_memory_bytes \in ManagerCapacities
    /\ ttl \in TTLs
    /\ disk = {}
    /\ now = 0
    /\ calls_left = MaxSteps + 1
    /\ written = {}
    /\ last = NoCall
    /\ threads = NoThreads
    /\ serial_used = 0
    /\ InitManager

NextManager ==
    \/ DoUploadStreamImage
    \/ DoGetStreamImages
    \/ DoDeleteStreamImage
    \/ DoSetVisibility
    \/ ManagerGetImage(ManagerPages, UUIDs)
    \/ ManagerClearPageCache(ManagerPages)

SpecManager == InitUploads /\ [][NextManager]_vars

-----------------------------------------------------------------------------
(* Properties *)

LastKey == CacheKey(last.page, last.image_id)
LastFile == GetDiskPath(LastKey, last.page)

\* C1: after any sequence of cache_image and clear_page_cache calls (checked
\* under SpecCacheClear, which makes no other call), memory_used equals the sum
\* of the payload sizes of the entries in memory_cache.
C1_BytesUsedIsSum == memory_used = SumSizes(memory_cache)

\* C2: a get_image call that starts with memory_used equal to the sum of the
\* payload sizes in memory_cache ends with the two equal again.
C2_GetImageKeepsAccounting ==
    (last.op = "get_image" /\ last.pre_used = SumSizes(last.pre_cache))
        => memory_used = SumSizes(memory_cache)

\* the last two calls were cache_image(id, data, page), then get_image(id, page)
\* before the TTL elapsed
RoundTrip ==
    /\ last.op = "get_image"
    /\ last.prev.op = "cache_image"
    /\ last.prev.image_id = last.image_id
    /\ last.prev.page = last.page
    /\ last.at - last.prev.at < ttl

\* C3: cache_image(id, data, page) followed immediately by get_image(id, page),
\* within the TTL, returns exactly data.
C3_RoundTrip == RoundTrip => last.ret = Some(last.prev.data)

\* the round trip of a two-byte payload over a key that held another payload,
\* one tick after it was cached
C3_Witness ==
    /\ RoundTrip
    /\ last.at > last.prev.at
    /\ last.prev.data = <<2, 2>>
    /\ last.ret = Some(<<2, 2>>)
    /\ <<last.page, last.image_id, <<1>>>> \in written

\* C4: get_image of a key that is in memory with timestamp t0: when now - t0 < ttl
\* the call returns the entry's payload from memory and leaves the table as it
\* is; when now - t0 >= ttl the call is no memory hit, the entry is deleted, and
\* the disk decides: a miss leaves the key absent, a disk hit appends the key
\* again with the file's bytes stamped now; without a file it is a miss.
C4_TTLBoundary ==
    (last.op = "get_image" /\ HasKey(last.pre_cache, LastKey)) =>
        LET e == Lookup(last.pre_cache, LastKey)
        IN  IF last.at - e.ts < ttl
            THEN /\ last.path = "memory"
                 /\ last.ret = Some(e.data)
                 /\ memory_cache = last.pre_cache
            ELSE /\ last.path \in {"disk", "miss"}
                 /\ last.path = "miss" =>
                        /\ last.ret = None
                        /\ memory_cache = DictDel(last.pre_cache, LastKey)
                 /\ last.path = "disk" =>
                        /\ FileExists(disk, LastFile)
                        /\ memory_cache =
                              Append(DictDel(last.pre_cache, LastKey),
                                     Entry(LastKey, FileData(disk, LastFile),
                                           last.at, last.page))
                 /\ ~FileExists(disk, LastFile) => last.path = "miss"

\* a read exactly ttl after the entry was stamped: no memory hit, the disk serves it
C4_Witness ==
    /\ last.op = "get_image"
    /\ HasKey(last.pre_cache, LastKey)
    /\ last.at - Lookup(last.pre_cache, LastKey).ts = ttl
    /\ last.path = "disk"
    /\ Len(last.pre_cache) = 2

\* a cache_image call that swept a table of at least one entry
Swept ==
    /\ last.op = "cache_image"
    /\ last.swept = 1
    /\ last.pre_cache # <<>>

\* the entries the sweep of the last call removed
Removed == {i \in 1..Len(last.pre_cache) :
                ~HasKey(last.mid_cache, last.pre_cache[i].key)}

\* the sweep only removed entries: what it left is the table it found, without them
SweepOnlyRemoves ==
    last.mid_cache =
        Without(last.pre_cache, {last.pre_cache[i].key : i \in Removed})

\* C5: a get_image served by the disk fallback returns bytes that cache_image
\* was given for that (page, image_id), and puts them into memory under the key,
\* stamped now.
C5_DiskFallback ==
    (last.op = "get_image" /\ last.path = "disk") =>
        /\ \E d \in Payloads :
              /\ last.ret = Some(d)
              /\ <<last.page, last.image_id, d>> \in written
        /\ HasKey(memory_cache, LastKey)
        /\ Some(Lookup(memory_cache, LastKey).data) = last.ret
        /\ Lookup(memory_cache, LastKey).ts = last.at

\* C6 as claimed: a sweep of a table of n >= 1 entries removes ceil(n/5) entries.
C6_SweepCeil ==
    Swept => /\ Cardinality(Removed) = (Len(last.pre_cache) + 4) \div 5
             /\ SweepOnlyRemoves

\* C6 as amended: a sweep of a table of n >= 1 entries removes 1 entry when
\* n < 5 and floor(n/5) entries otherwise.
C6_SweepFloor ==
    Swept => /\ Cardinality(Removed) =
                  (IF Len(last.pre_cache) < 5 THEN 1 ELSE Len(last.pre_cache) \div 5)
             /\ SweepOnlyRemoves

\* a sweep of six entries that removed one of them
C6_Witness ==
    /\ Swept
    /\ Len(last.pre_cache) = 6
    /\ Cardinality(Removed) = 1
    /\ Len(last.mid_cache) = 5

\* C7: every entry a sweep removed has a timestamp less than or equal to the
\* timestamp of every entry the sweep left.
C7_OldestFirst ==
    Swept => \A i \in Removed : \A j \in 1..Len(last.mid_cache) :
                last.pre_cache[i].ts <= last.mid_cache[j].ts

\* a sweep that removed two of ten entries, of a table whose dict order is not
\* its timestamp order: the first entry is newer than the two removed
C7_Witness ==
    /\ Swept
    /\ Len(last.pre_cache) = 10
    /\ Removed = {2, 3}
    /\ last.pre_cache[1].ts > last.pre_cache[2].ts

\* C8: in one cache_image call the sweep runs if and only if
\* memory_used + len(image_data) > max_memory_bytes on entry, runs once (it
\* removes the entries of one sweep, no more), and runs before the insertion:
\* the new entry is put into the swept table and is in memory afterwards, with
\* the given payload, stamped now.
C8_SweepTrigger ==
    last.op = "cache_image" =>
        LET cond == last.pre_used + Len(last.data) > max_memory_bytes
            n    == Len(last.pre_cache)
        IN  /\ last.swept = (IF cond THEN 1 ELSE 0)
            /\ ~cond => last.mid_cache = last.pre_cache
            /\ (cond /\ n > 0) =>
                   /\ Cardinality(Removed) = (IF n < 5 THEN 1 ELSE n \div 5)
                   /\ SweepOnlyRemoves
            /\ memory_cache =
                  DictSet(last.mid_cache, LastKey, last.data, last.at, last.page)
            /\ HasKey(memory_cache, LastKey)
            /\ Lookup(memory_cache, LastKey).data = last.data
            /\ Lookup(memory_cache, LastKey).ts = last.at

\* a call that swept a table whose oldest entry was under the key being cached:
\* the sweep removed it and the call put the new entry in
C8_Witness ==
    /\ Swept
    /\ Len(last.pre_cache) = 2
    /\ last.pre_cache[1].key = LastKey
    /\ Removed = {1}
    /\ HasKey(memory_cache, LastKey)

\* the worked scenario: capacity 1000, five 200-byte entries, memory_used = 1000,
\* and a cache_image of 200 bytes under a key that is not in memory
Scenario ==
    /\ last.op = "cache_image"
    /\ max_memory_bytes = 1000
    /\ Len(last.pre_cache) = 5
    /\ \A i \in 1..5 : Len(last.pre_cache[i].data) = 200
    /\ last.pre_used = 1000
    /\ Len(last.data) = 200
    /\ ~HasKey(last.pre_cache, LastKey)

\* C9: in the worked scenario the sixth call evicts exactly one entry, the
\* oldest, and leaves five entries and memory_used = 1000.
C9_Scenario ==
    Scenario =>
        /\ Cardinality(Removed) = 1
        /\ \A i \in Removed : \A j \in 1..5 : last.pre_cache[i].ts <= last.pre_cache[j].ts
        /\ SweepOnlyRemoves
        /\ Len(memory_cache) = 5
        /\ HasKey(memory_cache, LastKey)
        /\ memory_used = 1000

\* the scenario with entries of two ages: the first, older one was evicted
C9_Witness ==
    /\ Scenario
    /\ last.pre_cache[1].ts < last.pre_cache[5].ts
    /\ Removed = {1}
    /\ Len(memory_cache) = 5
    /\ memory_used = 1000

\* the entries of the table the last call started from that were cached under
\* its page argument
OfPage == {i \in 1..Len(last.pre_cache) : last.pre_cache[i].page = last.page}

RECURSIVE SizeOf(_, _)
SizeOf(mc, idx) ==
    IF idx = {} THEN 0
    ELSE LET i == CHOOSE x \in idx : TRUE
         IN  Len(mc[i].data) + SizeOf(mc, idx \ {i})

\* C10: clear_page_cache(p) removes from memory exactly the entries cached under
\* page p, leaves every entry cached under another page as it is, and takes the
\* total size of the removed entries off memory_used.
C10_PageIsolation ==
    last.op = "clear_page_cache" =>
        /\ \A i \in OfPage : ~HasKey(memory_cache, last.pre_cache[i].key)
        /\ \A i \in 1..Len(last.pre_cache) :
              i \notin OfPage =>
                  /\ HasKey(memory_cache, last.pre_cache[i].key)
                  /\ Lookup(memory_cache, last.pre_cache[i].key) = last.pre_cache[i]
        /\ memory_used = last.pre_used - SizeOf(last.pre_cache, OfPage)

-----------------------------------------------------------------------------
(* file names and keys *)

\* the file cache_image writes for a pair
FileOf(page, image_id) == GetDiskPath(CacheKey(page, image_id), page)

\* the files of the disk the last call started from that cache_image wrote
\* for its page argument
FilesOfPage ==
    {f \in last.pre_disk :
        \E w \in written : w[1] = last.page /\ f.name = FileOf(w[1], w[2])}

\* C11: the disk scan of a clear_page_cache(p) that returns deletes exactly
\* the files cache_image wrote for page p and no file of any other page.
C11_DiskPageIsolation ==
    (last.op = "clear_page_cache" /\ ~last.raised) =>
        \A f \in last.pre_disk : (f \notin disk) <=> (f \in FilesOfPage)

\* the payloads cached so far under the pair of the last call
CachedUnderPair == {w[3] : w \in {x \in written : x[1] = last.page /\ x[2] = last.image_id}}

\* the index of the entry with a key in a table, 0 when there is none
PosOf(mc, key) == IF HasKey(mc, key) THEN IndexOf(mc, key) ELSE 0

\* C12: distinct (page, image_id) pairs have distinct Memory Table keys: a
\* cache_image under one pair never replaces the entry of another pair, and a
\* memory hit of get_image never returns a payload cached under another pair.
C12_KeysDistinct ==
    /\ \A w1, w2 \in written :
          CacheKey(w1[1], w1[2]) = CacheKey(w2[1], w2[2]) => (w1[1] = w2[1] /\ w1[2] = w2[2])
    /\ (last.op = "cache_image" /\ HasKey(last.mid_cache, LastKey)) =>
          (last.mid_cache[PosOf(last.mid_cache, LastKey)].page = last.page)
    /\ (last.op = "get_image" /\ last.path = "memory") =>
          \E d \in CachedUnderPair : last.ret = Some(d)

\* C13: distinct (page, image_id) pairs have distinct disk file names, and a
\* disk hit of get_image never returns bytes that were cached under another
\* pair only.
C13_FilesDistinct ==
    /\ \A w1, w2 \in written :
          FileOf(w1[1], w1[2]) = FileOf(w2[1], w2[2]) => (w1[1] = w2[1] /\ w1[2] = w2[2])
    /\ (last.op = "get_image" /\ last.path = "disk") =>
          \E d \in CachedUnderPair : last.ret = Some(d)

-----------------------------------------------------------------------------
(* failures of the disk *)

\* C14: cache_image returns True on every call and leaves the entry in memory
\* with the payload it was given, whether its write to disk worked or not.
C14_CacheImageReturnsTrue ==
    last.op = "cache_image" =>
        /\ last.ret = Some(TRUE)
        /\ ~last.raised
        /\ HasKey(memory_cache, LastKey)
        /\ Lookup(memory_cache, LastKey).data = last.data

\* a cache_image whose write failed (its file is in neither the disk before nor
\* the disk after), which returned True with the entry in memory
C14_Witness ==
    /\ last.op = "cache_image"
    /\ ~FileExists(last.pre_disk, LastFile)
    /\ ~FileExists(disk, LastFile)
    /\ last.ret = Some(TRUE)
    /\ Lookup(memory_cache, LastKey).data = last.data

\* C15: no call lets an exception out when an operation on the disk fails (the
\* write of cache_image, the existence check and the read of get_image, the
\* deletion of a file in clear_page_cache): every call returns its value, True
\* for cache_image, a payload or None for get_image, a count for
\* clear_page_cache.
C15_NoException ==
    /\ ~last.raised
    /\ last.op = "cache_image" => last.ret = Some(TRUE)
    /\ last.op = "get_image" => (last.ret = None \/ \E d \in Payloads : last.ret = Some(d))
    /\ last.op = "clear_page_cache" => \E n \in 0..Len(last.pre_cache) : last.ret = Some(n)

-----------------------------------------------------------------------------
(* capacity *)

\* the entries of the table the last call started from whose key is in the
\* table no more
Gone == {i \in 1..Len(last.pre_cache) : ~HasKey(memory_cache, last.pre_cache[i].key)}

\* C16: the capacity is advisory. cache_image never turns a payload down: one
\* larger than max_memory_bytes, or one for which the single sweep freed too
\* little, is inserted all the same (memory_used may end above
\* max_memory_bytes), and an entry leaves memory only by a sweep of a later
\* cache_image, by a page clear or by the expiry of its TTL.
C16_CapacityAdvisory ==
    /\ last.op = "cache_image" =>
          /\ last.ret = Some(TRUE)
          /\ HasKey(memory_cache, LastKey)
          /\ Lookup(memory_cache, LastKey).data = last.data
          /\ memory_used = last.mid_used + Len(last.data)
    /\ \A i \in Gone :
          \/ last.op = "cache_image" /\ last.swept = 1
          \/ last.op = "clear_page_cache"
          \/ /\ last.op = "get_image"
             /\ last.pre_cache[i].key = LastKey
             /\ last.at - last.pre_cache[i].ts >= ttl

\* a payload larger than the whole capacity was cached and the next call, a
\* get_image, found it in memory, with memory_used above max_memory_bytes
C16_Witness ==
    /\ last.op = "get_image"
    /\ last.prev.op = "cache_image"
    /\ last.prev.page = last.page
    /\ last.prev.image_id = last.image_id
    /\ Len(last.prev.data) > max_memory_bytes
    /\ last.path = "memory"
    /\ last.ret = Some(last.prev.data)
    /\ memory_used > max_memory_bytes

-----------------------------------------------------------------------------
(* the result of clear_page_cache *)

\* C17: clear_page_cache(p) returns the number of entries that were in memory
\* under page p just before the call, whatever files it deletes: 0 when page p
\* has copies on disk only.
C17_ClearCount ==
    last.op = "clear_page_cache" =>
        /\ last.ret = Some(Cardinality(OfPage))
        /\ (OfPage = {} /\ FilesOfPage # {}) => last.ret = Some(0)

-----------------------------------------------------------------------------
(* concurrent calls *)

AllDone == \A t \in Threads : threads[t].pc \in {"done", "raised"}

\* C18: two calls that run at the same time on the one cache behave as if each
\* ran alone, one after the other: no call ends in an exception, and when
\* both are over every += and -= of the two calls is in memory_used.
C18_MutualExclusion ==
    /\ \A t \in Threads : threads[t].pc # "raised"
    /\ AllDone => memory_used = serial_used

-----------------------------------------------------------------------------
(* the life of an entry *)

\* the keys in the table that were not in the table the last call started from
Entered == Keys(memory_cache) \ Keys(last.pre_cache)

\* C19: an entry enters memory only by a cache_image for its key or by a disk
\* hit of a get_image for its key; it leaves only by a clear_page_cache for its
\* page, by a get_image for its own key that finds its TTL expired, or by the
\* sweep of a cache_image.  get_cache_stats and a get_image for another key
\* neither add nor remove it.
C19_Lifecycle ==
    /\ \A k \in Entered :
          /\ k = LastKey
          /\ last.op = "cache_image" \/ (last.op = "get_image" /\ last.path = "disk")
    /\ \A i \in Gone :
          \/ last.op = "clear_page_cache" /\ last.pre_cache[i].page = last.page
          \/ /\ last.op = "get_image"
             /\ last.pre_cache[i].key = LastKey
             /\ last.at - last.pre_cache[i].ts >= ttl
          \/ last.op = "cache_image" /\ last.swept = 1 /\ i \in Removed
    /\ last.op = "get_cache_stats" => memory_cache = last.pre_cache
    /\ last.op = "get_image" =>
          \A i \in 1..Len(last.pre_cache) :
              last.pre_cache[i].key # LastKey =>
                  /\ HasKey(memory_cache, last.pre_cache[i].key)
                  /\ Lookup(memory_cache, last.pre_cache[i].key) = last.pre_cache[i]

-----------------------------------------------------------------------------
(* replace on write *)

\* the entries of the table under the key of the last call
UnderLastKey == {i \in 1..Len(memory_cache) : memory_cache[i].key = LastKey}

\* a payload other than d was cached before under the pair of the last call
CachedOther(d) == \E w \in written : w[1] = last.page /\ w[2] = last.image_id /\ w[3] # d

\* C20: a cache_image(id, d2, page), whatever was cached under (page, id)
\* before, leaves exactly one entry for (page, id), holding d2 with the time of
\* the call as its timestamp; the get_image(id, page) that follows within the
\* TTL returns d2, never an earlier payload.
C20_ReplaceOnWrite ==
    /\ last.op = "cache_image" =>
          /\ Cardinality(UnderLastKey) = 1
          /\ \A i \in UnderLastKey :
                memory_cache[i].data = last.data /\ memory_cache[i].ts = last.at
    /\ RoundTrip =>
          /\ last.ret = Some(last.prev.data)
          /\ \A w \in written :
                (w[1] = last.page /\ w[2] = last.image_id /\ w[3] # last.prev.data)
                    => last.ret # Some(w[3])

\* d1 was cached under a pair, then d2 # d1 under the same pair, and the
\* get_image that followed returned d2 from the one entry of the pair
C20_Witness ==
    /\ RoundTrip
    /\ CachedOther(last.prev.data)
    /\ last.path = "memory"
    /\ last.ret = Some(last.prev.data)
    /\ Cardinality(UnderLastKey) = 1

-----------------------------------------------------------------------------
(* the capacity after a sweep *)

\* C21, as stated: after a cache_image that ran the sweep, memory_used is at
\* most max_memory_bytes unless the payload alone is larger than
\* max_memory_bytes.
C21_CapacityTarget ==
    (last.op = "cache_image" /\ last.swept = 1 /\ Len(last.data) <= max_memory_bytes)
        => memory_used <= max_memory_bytes

\* C21, amended: after a cache_image that ran the sweep, memory_used is its
\* value before the call, less the sizes of the max(1, floor(n/5)) entries the
\* one sweep removed, plus the length of the payload; it is at most
\* max_memory_bytes exactly when that one sweep freed enough.
C21_SweepOnce ==
    (last.op = "cache_image" /\ last.swept = 1) =>
        /\ memory_used = last.pre_used - SizeOf(last.pre_cache, Removed) + Len(last.data)
        /\ last.pre_cache # <<>> => Cardinality(Removed) = RemoveCount(Len(last.pre_cache))
        /\ (memory_used <= max_memory_bytes)
              <=> (last.mid_used + Len(last.data) <= max_memory_bytes)

\* a sweep that freed too little for a payload no larger than the capacity:
\* memory_used, here the true sum of the sizes, ends above max_memory_bytes
C21_Witness ==
    /\ last.op = "cache_image"
    /\ last.swept = 1
    /\ Len(last.data) <= max_memory_bytes
    /\ Removed # {}
    /\ memory_used = SumSizes(memory_cache)
    /\ memory_used > max_memory_bytes

-----------------------------------------------------------------------------
(* reads *)

-----------------------------------------------------------------------------
(* memory and disk *)

\* the file of an entry of the table
EntryFile(e) == GetDiskPath(e.key, e.page)

\* C23: as long as no disk operation has failed, every key in memory_cache has
\* a file on disk that holds the payload of its entry.
C23_Mirror ==
    ~hist.failed =>
        \A i \in 1..Len(memory_cache) :
            /\ FileExists(disk, EntryFile(memory_cache[i]))
            /\ FileData(disk, EntryFile(memory_cache[i])) = memory_cache[i].data

-----------------------------------------------------------------------------
(* the byte count *)

\* C25: calls made one after the other never leave memory_used below the sum
\* of the payload sizes of the entries in memory_cache, nor below 0.
C25_NeverUnderCounts ==
    /\ memory_used >= SumSizes(memory_cache)
    /\ memory_used >= 0

\* a cache_image swept an entry out of a table that counted more than it held:
\* the count went down by the size of the victim and is still above what the
\* table holds
C25_Witness ==
    /\ last.op = "cache_image"
    /\ last.swept = 1
    /\ Removed # {}
    /\ last.pre_used > SumSizes(last.pre_cache)
    /\ last.mid_used < last.pre_used
    /\ memory_used > SumSizes(memory_cache)

-----------------------------------------------------------------------------
(* after a clear *)

\* C26: as long as no disk operation has failed, once clear_page_cache(p) has
\* returned, get_image(id, p) returns None for every id that was cached under
\* p, until the next cache_image for (p, id).
C26_ClearIsComplete ==
    (/\ ~hist.failed
     /\ last.op = "get_image"
     /\ <<last.page, last.image_id>> \in hist.cleared)
        => last.ret = None

-----------------------------------------------------------------------------
(* freshness *)

\* the payload of the most recent cache_image for the pair of the last call
LatestOfPair == {w[3] : w \in {x \in hist.latest : x[1] = last.page /\ x[2] = last.image_id}}

\* C27: get_image(id, page) returns None or the payload of the most recent
\* cache_image(id, page), whatever disk writes failed before; never the payload
\* of an earlier cache_image for the pair.
C27_Freshness ==
    last.op = "get_image" =>
        \/ last.ret = None
        \/ \E d \in LatestOfPair : last.ret = Some(d)

-----------------------------------------------------------------------------
(* reads and the capacity *)

\* C28: a disk hit of get_image puts the entry in memory and adds the length
\* of the payload to memory_used with no sweep, every other entry staying as it
\* was, even when memory_used ends above max_memory_bytes; only cache_image
\* runs the sweep.
C28_ReadsBypassCapacity ==
    /\ (last.op = "get_image" /\ last.path = "disk") =>
          /\ HasKey(memory_cache, LastKey)
          /\ Some(Lookup(memory_cache, LastKey).data) = last.ret
          /\ memory_used = last.pre_used + Len(Lookup(memory_cache, LastKey).data)
          /\ \A i \in 1..Len(last.pre_cache) :
                last.pre_cache[i].key # LastKey =>
                    /\ HasKey(memory_cache, last.pre_cache[i].key)
                    /\ Lookup(memory_cache, last.pre_cache[i].key) = last.pre_cache[i]
    /\ last.swept = 1 => last.op = "cache_image"

\* a disk hit on a table at its capacity: the other entry stayed and
\* memory_used ended above max_memory_bytes
C28_Witness ==
    /\ last.op = "get_image"
    /\ last.path = "disk"
    /\ last.pre_used >= max_memory_bytes
    /\ Len(last.pre_cache) >= 1
    /\ Len(memory_cache) = Len(last.pre_cache) + 1
    /\ memory_used > max_memory_bytes

-----------------------------------------------------------------------------
(* eviction and the disk *)

\* the last call was a get_image for a key that a sweep had removed from
\* memory, with no cache_image or disk hit for the key and no clear_page_cache
\* for its page since
EvictedRead == last.op = "get_image" /\ hist.evicted_read

\* C29, as stated: a get_image for a key that capacity eviction removed returns
\* the originally cached payload from disk, not None, and puts the entry back
\* into memory.
C29_EvictedComesBack ==
    EvictedRead =>
        /\ last.path = "disk"
        /\ \E d \in LatestOfPair : last.ret = Some(d)
        /\ HasKey(memory_cache, LastKey)

\* C29, amended: the sweep deletes no file; a get_image for a key that capacity
\* eviction removed returns the bytes of the key's file and puts the entry back
\* into memory when the file exists and is read, and returns None otherwise.
C29_EvictionIsMemoryOnly ==
    /\ (last.op = "cache_image" /\ last.swept = 1) =>
          \A f \in last.pre_disk : f.name # LastFile => f \in disk
    /\ EvictedRead =>
          IF FileExists(last.pre_disk, LastFile) /\ ~hist.read_failed
          THEN /\ last.path = "disk"
               /\ last.ret = Some(FileData(last.pre_disk, LastFile))
               /\ HasKey(memory_cache, LastKey)
               /\ Lookup(memory_cache, LastKey).data = FileData(last.pre_disk, LastFile)
               /\ Lookup(memory_cache, LastKey).ts = last.at
          ELSE /\ last.ret = None
               /\ ~HasKey(memory_cache, LastKey)

\* an evicted key was read back from disk: the payload of its cache_image is
\* returned and is in memory again
C29_Witness ==
    /\ EvictedRead
    /\ last.path = "disk"
    /\ \E d \in LatestOfPair : last.ret = Some(d)
    /\ HasKey(memory_cache, LastKey)
    /\ ~HasKey(last.pre_cache, LastKey)

-----------------------------------------------------------------------------
(* access control and deletion *)

ImageIdsOf(images) == [i \in 1..Len(images) |-> images[i].image_id]

PublicOf(images) ==
    LET Test(img) == img.visibility = "public"
    IN  SelectSeq(images, Test)

\* a record as the list holds it, the view counter apart
SameRecord(a, b) == [a EXCEPT !.view_count = 0] = [b EXCEPT !.view_count = 0]

\* C24: get_stream_images returns the empty list for a stream_id that is not in
\* the index, every record of the stream in stored order to the owner, and to
\* anyone else only the records whose visibility is PUBLIC (in stored order).
C24_AccessControl ==
    last_manager.op = "get_stream_images" =>
        LET pre == last_manager.pre_images
            s   == last_manager.stream_id
            ret == last_manager.ret
        IN  IF s \notin DOMAIN pre
            THEN ret = <<>>
            ELSE LET expected == IF last_manager.is_owner THEN pre[s]
                                 ELSE PublicOf(pre[s])
                 IN  /\ Len(ret) = Len(expected)
                     /\ \A i \in 1..Len(ret) : SameRecord(ret[i], expected[i])
                     /\ ~last_manager.is_owner =>
                           \A i \in 1..Len(ret) : ret[i].visibility = "public"

\* a viewer who is not the owner asked for a stream that holds a record for
\* subscribers next to a public one, and got the public one alone
C24_Witness ==
    /\ last_manager.op = "get_stream_images"
    /\ ~last_manager.is_owner
    /\ last_manager.stream_id \in DOMAIN last_manager.pre_images
    /\ LET images == last_manager.pre_images[last_manager.stream_id]
       IN  /\ Len(images) = 2
           /\ \E i \in 1..2 : images[i].visibility = "subscribers"
           /\ Len(last_manager.ret) = 1
           /\ last_manager.ret[1].visibility = "public"

\* the records of an image in the index
RecordsOf(images, image_id) ==
    {<<s, i>> \in (DOMAIN images) \X (1..Cardinality(UUIDs)) :
        i <= Len(images[s]) /\ images[s][i].image_id = image_id}

\* C30: delete_stream_image leaves memory_cache, memory_used and the cache's
\* disk files as they were; when it returns True the record of the image is gone
\* from the stream's list and so are the stream's files whose name starts with
\* the image_id.
C30_DeleteLeavesCache ==
    last_manager.op = "delete_stream_image" /\ ~last_manager.followed =>
        /\ memory_cache = last_manager.pre_cache
        /\ memory_used = last_manager.pre_used
        /\ disk = last_manager.pre_disk
        /\ last_manager.ret = Some(TRUE) =>
              /\ last_manager.stream_id \in DOMAIN stream_images
              /\ \A i \in 1..Len(stream_images[last_manager.stream_id]) :
                    stream_images[last_manager.stream_id][i].image_id
                        # last_manager.image_id
              /\ \A f \in images_dir :
                    ~(f.stream_id = last_manager.stream_id
                      /\ StartsWith(f.name, last_manager.image_id))

\* an uploaded image was deleted, record and files, and the get_image that
\* followed returned its bytes
C30_Witness ==
    /\ last_manager.op = "delete_stream_image"
    /\ last_manager.ret = Some(TRUE)
    /\ RecordsOf(last_manager.pre_images, last_manager.image_id) # {}
    /\ RecordsOf(stream_images, last_manager.image_id) = {}
    /\ StoredFilesOf(images_dir, last_manager.stream_id, last_manager.image_id) = {}
    /\ last_manager.followed
    /\ last.op = "get_image"
    /\ last.image_id = last_manager.image_id
    /\ last.pre_cache = last_manager.pre_cache
    /\ \E w \in written : w[2] = last.image_id /\ last.ret = Some(w[3])

====
